---- MODULE Spec2Model ----
(***************************************************************************)
(* Modbus-over-TCP transport of umodbus/tcp.py: the slave listener         *)
(* (TCPServer), the request dispatcher (ModbusTCP) and the master          *)
(* transport (TCP), as one state machine.                                  *)
(*                                                                         *)
(* Conventions: Python None is NoSock (sockets) or the empty sequence      *)
(* (optional values: <<>> is None, <<x>> is x); bytes are sequences of     *)
(* naturals 0..255, indexed from 1; Python False/True are 0/1; times are   *)
(* milliseconds.                                                           *)
(***************************************************************************)
EXTENDS Integers, Sequences, FiniteSets, TLC

VARIABLES
    sock,           \* TCPServer._sock: the listening socket, or NoSock
    client_sock,    \* TCPServer._client_sock: the active client socket, or NoSock
    is_bound,       \* TCPServer._is_bound
    req_tid,        \* TCPServer._req_tid: transaction id of the last parsed header
    socks,          \* socket id -> "new" | "listening" | "connected" | "closed"
    nextSock,       \* the id the next created socket gets
    register_dict,  \* Modbus._register_dict: reg_type -> address -> value
    frames,         \* frames the slave sent during the last call, in order
    effects,        \* store and peer effects of the last dispatch, in order
    ret,            \* outcome of the last slave call
    call,           \* the last slave call and its inputs
    poll_pc,        \* "idle", or "loop" inside get_request's while loop
    poll_timeout,   \* get_request's timeout argument (ms)
    poll_ual,       \* get_request's unit_addr_list argument
    start_ms,       \* get_request's start_ms
    elapsed,        \* get_request's elapsed
    now,            \* time.ticks_ms()
    trans_id_ctr,   \* TCP.trans_id_ctr
    m_call,         \* the last master call (n: the calls so far), its inputs
                    \* and its outcome
    m_sock          \* TCP._sock: the bytes of the slave on their way to the
                    \* master (inflight) and those arrived and not yet read (buf)

vars == << sock, client_sock, is_bound, req_tid, socks, nextSock, register_dict,
           frames, effects, ret, call, poll_pc, poll_timeout, poll_ual,
           start_ms, elapsed, now, trans_id_ctr, m_call, m_sock >>

slaveVars == << sock, client_sock, is_bound, req_tid, socks, nextSock,
                register_dict, frames, effects, ret, call >>
pollVars == << poll_pc, poll_timeout, poll_ual, start_ms, elapsed, now >>
masterVars == << trans_id_ctr, m_call, m_sock >>

---------------------------------------------------------------------------
(* Bounds of the model *)

MaxSockets == 3
MaxTime == 1500
MaxSends == 3

---------------------------------------------------------------------------
(* Const *)

READ_COILS == 1
READ_DISCRETE_INPUTS == 2
READ_HOLDING_REGISTERS == 3
READ_INPUT_REGISTER == 4
WRITE_SINGLE_COIL == 5
WRITE_SINGLE_REGISTER == 6
ILLEGAL_FUNCTION == 1
ILLEGAL_DATA_ADDRESS == 2
ILLEGAL_DATA_VALUE == 3
ERROR_BIAS == 128
MBAP_HDR_LENGTH == 7

EAGAIN == 11
RecvTimeoutMs == 500
TidModulus == 65536

NoSock == 0

---------------------------------------------------------------------------
(* Bytes *)

Min(a, b) == IF a < b THEN a ELSE b

\* struct.pack('>H', n) for n in range
U16BE(n) == << (n \div 256) % 256, n % 256 >>

\* struct.unpack('>H', b[i:i+2]), i counted from 1
U16At(b, i) == b[i] * 256 + b[i + 1]

\* Python b[lo:hi], lo and hi counted from 0, clipped to the bytes there are
Slice(b, lo, hi) == SubSeq(b, lo + 1, Min(hi, Len(b)))

---------------------------------------------------------------------------
(* PDU codec and request object (functions, common.Request) *)

Supported == { READ_COILS, READ_DISCRETE_INPUTS, READ_HOLDING_REGISTERS,
               READ_INPUT_REGISTER, WRITE_SINGLE_COIL, WRITE_SINGLE_REGISTER }

\* functions.exception_response: the biased function code, then the exception code
exception_response(function_code, exception_code) ==
    << function_code + ERROR_BIAS, exception_code >>

\* up to eight booleans packed into one byte, least significant bit first
RECURSIVE PackBits(_)
PackBits(values) ==
    IF values = <<>> THEN 0
    ELSE (IF Head(values) # 0 THEN 1 ELSE 0) + 2 * PackBits(Tail(values))

\* 16-bit big-endian words
RECURSIVE PackRegs(_)
PackRegs(values) ==
    IF values = <<>> THEN <<>> ELSE U16BE(Head(values)) \o PackRegs(Tail(values))

\* functions.response: reads carry a byte count and the data, writes echo the request
response(function_code, request_register_addr, request_data, values) ==
    IF function_code \in {READ_COILS, READ_DISCRETE_INPUTS}
    THEN << function_code, (Len(values) + 7) \div 8, PackBits(values) >>
    ELSE IF function_code \in {READ_HOLDING_REGISTERS, READ_INPUT_REGISTER}
    THEN << function_code, 2 * Len(values) >> \o PackRegs(values)
    ELSE << function_code >> \o U16BE(request_register_addr) \o request_data

\* Request.__init__ on the unit-id-plus-PDU bytes: the parsed request
Request(data) ==
    [ unit_addr     |-> data[1],
      function      |-> data[2],
      register_addr |-> U16At(data, 3),
      quantity      |-> IF Len(data) >= 6 THEN U16At(data, 5) ELSE 0,
      data          |-> Slice(data, 4, Len(data)) ]

\* How Request.__init__ ends: "ok", "violation" (a ModbusException: exc # 0 is
\* the protocol violation found in the function-specific fields) or "error"
\* (another exception: the fields to parse are not all there).
RequestOutcome(data, exc) ==
    IF Len(data) < 2 \/ Len(data) < (IF data[2] \in Supported THEN 6 ELSE 4)
    THEN "error"
    ELSE IF exc # 0 THEN "violation"
    ELSE "ok"

\* ModbusException.exception_code
ViolationCode(exc) == IF exc # 0 THEN exc ELSE ILLEGAL_DATA_VALUE

\* Request.data_as_registers(signed=False)
data_as_registers(request) == << U16At(request.data, 1) >>

---------------------------------------------------------------------------
(* TCPServer *)

\* errno of an OSError
Errno(name) ==
    CASE name = "EAGAIN" -> 11
      [] name = "ETIMEDOUT" -> 110
      [] name = "ECONNABORTED" -> 103
      [] name = "ECONNRESET" -> 104
      [] name = "EINVAL" -> 22
      [] name = "EBADF" -> 9
      [] OTHER -> 0

\* TCPServer._send: the ADU handed to the active client socket
_send(tid, cs, modbus_pdu, slave_addr) ==
    [ sock |-> cs,
      adu  |-> U16BE(tid) \o U16BE(0) \o U16BE(Len(modbus_pdu) + 1)
               \o << slave_addr >> \o modbus_pdu ]

\* TCPServer.send_response
send_response(tid, cs, slave_addr, function_code, request_register_addr, request_data, values) ==
    _send(tid, cs,
          response(function_code, request_register_addr, request_data, values),
          slave_addr)

\* send_exception_response sending the function code without the error bias
send_exception_response_unbiased(tid, cs, slave_addr, function_code, exception_code) ==
    _send(tid, cs, << function_code, exception_code >>, slave_addr)

\* TCPServer.send_exception_response
send_exception_response(tid, cs, slave_addr, function_code, exception_code) ==
    _send(tid, cs, exception_response(function_code, exception_code), slave_addr)

\* UidAndPdu with the slice ending one byte early
UidAndPdu_short(req) ==
    Slice(req, MBAP_HDR_LENGTH - 1, MBAP_HDR_LENGTH + U16At(req, 5) - 2)

\* TCPServer._accept_request: the unit-id-plus-PDU region of the bytes read,
\* sliced by the length the header declares
UidAndPdu(req) ==
    Slice(req, MBAP_HDR_LENGTH - 1, MBAP_HDR_LENGTH + U16At(req, 5) - 1)

\* UnitAllowed letting every unit id pass
UnitAllowed_any(unit_addr_list, req_uid_and_pdu) == TRUE

\* TCPServer._accept_request, the negation of the test that discards a request:
\* no list of unit addresses was given, or the request's unit id is in it
UnitAllowed(unit_addr_list, req_uid_and_pdu) ==
    ~(unit_addr_list # <<>> /\ req_uid_and_pdu[1] \notin unit_addr_list[1])

\* AcceptClient leaving the previous client socket open
AcceptClient_keeps_old(old, new) ==
    [i \in 1..new |-> IF i = new THEN "connected" ELSE socks[i]]

\* TCPServer._accept_request when accept returned a connection: the sockets
\* after the previous client socket (old, if any) was closed and the new one
\* (new) became the active client socket
AcceptClient(old, new) ==
    [i \in 1..new |->
       IF i = new THEN "connected"
       ELSE IF i = old THEN "closed" ELSE socks[i]]

\* TCPServer._accept_request. acc: "conn" (accept returned a connection) or the
\* errno name of the OSError it raised; rcv: [kind, bytes] with kind "data" (bytes
\* read, empty when the peer closed) or "oserror"; exc: the outcome of request
\* construction. The result: the exception propagated (raised, "" for none), the
\* request returned (<<>> for None) and the listener's fields afterwards.
_accept_request(acc, rcv, unit_addr_list, exc) ==
    LET accepted == acc = "conn"
        socks1 == IF accepted THEN AcceptClient(client_sock, nextSock) ELSE socks
        cs1 == IF accepted THEN nextSock ELSE client_sock
        base == [ raised      |-> "",
                  request     |-> <<>>,
                  client_sock |-> cs1,
                  socks       |-> socks1,
                  nextSock    |-> IF accepted THEN nextSock + 1 ELSE nextSock,
                  req_tid     |-> req_tid,
                  frames      |-> <<>> ]
        req == rcv.bytes
    IN
    IF ~accepted /\ Errno(acc) # EAGAIN THEN [base EXCEPT !.raised = "OSError"]
    ELSE IF cs1 = NoSock THEN base
    ELSE IF rcv.kind = "oserror" THEN base
    ELSE IF Len(req) = 0 THEN base
    ELSE IF Len(req) < MBAP_HDR_LENGTH - 1
    THEN [base EXCEPT !.client_sock = NoSock, !.socks[cs1] = "closed"]
    ELSE
    LET tid == U16At(req, 1)
        req_pid == U16At(req, 3)
        req_uid_and_pdu == UidAndPdu(req)
        parsed == [base EXCEPT !.req_tid = tid]
    IN
    IF req_pid # 0
    THEN [parsed EXCEPT !.client_sock = NoSock, !.socks[cs1] = "closed"]
    ELSE IF unit_addr_list # <<>> /\ req_uid_and_pdu = <<>>
    THEN [parsed EXCEPT !.raised = "IndexError"]
    ELSE IF ~UnitAllowed(unit_addr_list, req_uid_and_pdu)
    THEN parsed
    ELSE
    CASE RequestOutcome(req_uid_and_pdu, exc) = "ok" ->
            [parsed EXCEPT !.request = << Request(req_uid_and_pdu) >>]
      [] RequestOutcome(req_uid_and_pdu, exc) = "violation" ->
            [parsed EXCEPT !.frames =
                << send_exception_response(tid, cs1, req[1], req_uid_and_pdu[2],
                                           ViolationCode(exc)) >>]
      [] OTHER -> [parsed EXCEPT !.raised = "Exception"]

---------------------------------------------------------------------------
(* Modbus register store (modbus.Modbus). A stored value is [is_list, val]: *)
(* val is the list, or the one-element sequence holding the scalar.         *)

Scalar(x) == [is_list |-> FALSE, val |-> << x >>]
List(xs) == [is_list |-> TRUE, val |-> xs]

\* One effect of a dispatch, in the order the code performs them:
\*   "contains"        address in self._register_dict[reg_type]
\*   "get"             self._register_dict[reg_type][address] read
\*   "send_response"   request.send_response(values)
\*   "send_exception"  request.send_exception(code)
\*   "set"             set_coil / set_hreg
\*   "changed"         _set_changed_register
Eff(e, reg_type, address, values, code) ==
    [ e |-> e, reg_type |-> reg_type, address |-> address,
      values |-> values, code |-> code ]

\* Modbus.set_coil / Modbus.set_hreg
set_reg(store, reg_type, address, value) ==
    [store EXCEPT ![reg_type][address] = Scalar(value)]

---------------------------------------------------------------------------
(* ModbusTCP *)

\* ModbusTCP.__init__: addr_list is None
addr_list == <<>>

\* RegType with write-multiple-coils (15) taken for a coil access
RegType_multiple_coils(function) ==
    CASE function = READ_COILS -> "COILS"
      [] function = READ_DISCRETE_INPUTS -> "ISTS"
      [] function = READ_HOLDING_REGISTERS -> "HREGS"
      [] function = READ_INPUT_REGISTER -> "IREGS"
      [] function = WRITE_SINGLE_COIL -> "COILS"
      [] function = WRITE_SINGLE_REGISTER -> "HREGS"
      [] function = 15 -> "COILS"
      [] OTHER -> ""

\* ModbusTCP.process: function code -> reg_type ("" is None)
RegType(function) ==
    CASE function = READ_COILS -> "COILS"
      [] function = READ_DISCRETE_INPUTS -> "ISTS"
      [] function = READ_HOLDING_REGISTERS -> "HREGS"
      [] function = READ_INPUT_REGISTER -> "IREGS"
      [] function = WRITE_SINGLE_COIL -> "COILS"
      [] function = WRITE_SINGLE_REGISTER -> "HREGS"
      [] OTHER -> ""

\* ModbusTCP.process: function code -> req_type ("" is None)
ReqType(function) ==
    CASE function \in { READ_COILS, READ_DISCRETE_INPUTS,
                        READ_HOLDING_REGISTERS, READ_INPUT_REGISTER } -> "READ"
      [] function \in { WRITE_SINGLE_COIL, WRITE_SINGLE_REGISTER } -> "WRITE"
      [] OTHER -> ""

\* ModbusTCP._create_response
_create_response(store, request, reg_type) ==
    IF store[reg_type][request.register_addr].is_list
    THEN store[reg_type][request.register_addr].val
    ELSE << store[reg_type][request.register_addr].val[1] >>

\* _process_read_access answering an absent address with ILLEGAL_FUNCTION
_process_read_access_wrong_code(store, request, reg_type) ==
    LET address == request.register_addr IN
    << Eff("contains", reg_type, address, <<>>, 0) >> \o
    IF address \in DOMAIN store[reg_type]
    THEN << Eff("get", reg_type, address,
                _create_response(store, request, reg_type), 0),
            Eff("send_response", reg_type, address,
                _create_response(store, request, reg_type), 0) >>
    ELSE << Eff("send_exception", reg_type, address, <<>>, ILLEGAL_FUNCTION) >>

\* _process_read_access without its else branch: silent on an absent address
_process_read_access_silent(store, request, reg_type) ==
    LET address == request.register_addr IN
    << Eff("contains", reg_type, address, <<>>, 0) >> \o
    IF address \in DOMAIN store[reg_type]
    THEN << Eff("get", reg_type, address,
                _create_response(store, request, reg_type), 0),
            Eff("send_response", reg_type, address,
                _create_response(store, request, reg_type), 0) >>
    ELSE <<>>

\* ModbusTCP._process_read_access: its effects in order
_process_read_access(store, request, reg_type) ==
    LET address == request.register_addr IN
    << Eff("contains", reg_type, address, <<>>, 0) >> \o
    IF address \in DOMAIN store[reg_type]
    THEN << Eff("get", reg_type, address,
                _create_response(store, request, reg_type), 0),
            Eff("send_response", reg_type, address,
                _create_response(store, request, reg_type), 0) >>
    ELSE << Eff("send_exception", reg_type, address, <<>>, ILLEGAL_DATA_ADDRESS) >>

\* WriteCoil taking every non-zero byte for True
WriteCoil_truthy(request, address) ==
    IF request.data[1] = 0
    THEN [ effs  |-> << Eff("send_response", "COILS", address, <<>>, 0),
                        Eff("set", "COILS", address, << 0 >>, 0) >>,
           valid_register |-> TRUE, val |-> 0 ]
    ELSE [ effs  |-> << Eff("send_response", "COILS", address, <<>>, 0),
                        Eff("set", "COILS", address, << 1 >>, 0) >>,
           valid_register |-> TRUE, val |-> 1 ]

\* ModbusTCP._process_write_access, the COILS branch: the effects up to the
\* commit, valid_register and val
WriteCoil(request, address) ==
    IF request.data[1] = 0
    THEN [ effs  |-> << Eff("send_response", "COILS", address, <<>>, 0),
                        Eff("set", "COILS", address, << 0 >>, 0) >>,
           valid_register |-> TRUE, val |-> 0 ]
    ELSE IF request.data[1] = 255
    THEN [ effs  |-> << Eff("send_response", "COILS", address, <<>>, 0),
                        Eff("set", "COILS", address, << 1 >>, 0) >>,
           valid_register |-> TRUE, val |-> 1 ]
    ELSE [ effs  |-> << Eff("send_exception", "COILS", address, <<>>,
                            ILLEGAL_DATA_VALUE) >>,
           valid_register |-> FALSE, val |-> request.data[1] ]

\* WriteHreg committing the value before it sends the confirmation
WriteHreg_commit_first(request, address) ==
    [ effs  |-> << Eff("set", "HREGS", address, data_as_registers(request), 0),
                   Eff("send_response", "HREGS", address, <<>>, 0) >>,
      valid_register |-> TRUE, val |-> data_as_registers(request)[1] ]

\* ModbusTCP._process_write_access, the HREGS branch
WriteHreg(request, address) ==
    [ effs  |-> << Eff("send_response", "HREGS", address, <<>>, 0),
                   Eff("set", "HREGS", address, data_as_registers(request), 0) >>,
      valid_register |-> TRUE, val |-> data_as_registers(request)[1] ]

\* _process_write_access looking at the coil value before the address
_process_write_access_value_first(store, request, reg_type) ==
    LET address == request.register_addr
        branch == IF reg_type = "COILS" THEN WriteCoil(request, address)
                  ELSE IF reg_type = "HREGS" THEN WriteHreg(request, address)
                  ELSE [effs |-> <<>>, valid_register |-> FALSE, val |-> 0]
    IN
    << Eff("contains", reg_type, address, <<>>, 0) >> \o
    IF address \in DOMAIN store[reg_type] \/ ~branch.valid_register
    THEN branch.effs \o
         (IF branch.valid_register
          THEN << Eff("changed", reg_type, address, << branch.val >>, 0) >>
          ELSE <<>>)
    ELSE << Eff("send_exception", reg_type, address, <<>>, ILLEGAL_DATA_ADDRESS) >>

\* ModbusTCP._process_write_access: its effects in order
_process_write_access(store, request, reg_type) ==
    LET address == request.register_addr
        branch == IF reg_type = "COILS" THEN WriteCoil(request, address)
                  ELSE IF reg_type = "HREGS" THEN WriteHreg(request, address)
                  ELSE [effs |-> <<>>, valid_register |-> FALSE, val |-> 0]
    IN
    << Eff("contains", reg_type, address, <<>>, 0) >> \o
    IF address \in DOMAIN store[reg_type]
    THEN branch.effs \o
         (IF branch.valid_register
          THEN << Eff("changed", reg_type, address, << branch.val >>, 0) >>
          ELSE <<>>)
    ELSE << Eff("send_exception", reg_type, address, <<>>, ILLEGAL_DATA_ADDRESS) >>

\* ModbusTCP.process after a request was obtained: its effects in order
Dispatch(store, request) ==
    LET reg_type == RegType(request.function)
        req_type == ReqType(request.function)
    IN
    (IF reg_type = ""
     THEN << Eff("send_exception", "", request.register_addr, <<>>,
                 ILLEGAL_FUNCTION) >>
     ELSE <<>>)
    \o
    (IF reg_type # ""
     THEN IF req_type = "READ" THEN _process_read_access(store, request, reg_type)
          ELSE IF req_type = "WRITE"
          THEN _process_write_access(store, request, reg_type)
          ELSE <<>>
     ELSE <<>>)

\* The frames a dispatch's effects put on the active client socket:
\* Request.send_response and Request.send_exception call the listener's
\* send_response and send_exception_response with the request's own fields.
RECURSIVE FramesOf(_, _, _, _)
FramesOf(effs, request, tid, cs) ==
    IF effs = <<>> THEN <<>>
    ELSE (IF Head(effs).e = "send_response"
          THEN << send_response(tid, cs, request.unit_addr, request.function,
                                request.register_addr, request.data,
                                Head(effs).values) >>
          ELSE IF Head(effs).e = "send_exception"
          THEN << send_exception_response(tid, cs, request.unit_addr,
                                          request.function, Head(effs).code) >>
          ELSE <<>>)
         \o FramesOf(Tail(effs), request, tid, cs)

\* The register store after a dispatch's effects
RECURSIVE StoreAfter(_, _)
StoreAfter(effs, store) ==
    IF effs = <<>> THEN store
    ELSE StoreAfter(Tail(effs),
                    IF Head(effs).e = "set"
                    THEN set_reg(store, Head(effs).reg_type, Head(effs).address,
                                 Head(effs).values[1])
                    ELSE store)

---------------------------------------------------------------------------
(* Inputs: what the peer, the sockets and the caller may supply *)

\* An ADU on the wire
Wire(tid, pid, len, uid, pdu) ==
    U16BE(tid) \o U16BE(pid) \o U16BE(len) \o << uid >> \o pdu

\* A well-framed ADU: protocol id 0, length = len(PDU) + 1
GoodFrame(tid, uid, pdu) == Wire(tid, 0, Len(pdu) + 1, uid, pdu)

Pdu(function_code, addr, data) == << function_code >> \o U16BE(addr) \o data

\* Register addresses the requests name: one holding a scalar, one holding a
\* list, one absent from the store
PresentAddr == 1 - 1
ListAddr == PresentAddr + 1
AbsentAddr == PresentAddr + 9

\* The transaction id and the unit id of the peer's requests
PeerTid == 256 + 2
PeerUid == 1 + 2

ReadPdus ==
    { Pdu(f, a, << 0, 1 >>) :
        f \in { READ_COILS, READ_DISCRETE_INPUTS, READ_HOLDING_REGISTERS,
                READ_INPUT_REGISTER },
        a \in { PresentAddr, AbsentAddr } }
    \cup { Pdu(READ_DISCRETE_INPUTS, ListAddr, << 0, 2 >>),
           Pdu(READ_HOLDING_REGISTERS, ListAddr, << 0, 2 >>) }

WriteCoilPdus ==
    { Pdu(WRITE_SINGLE_COIL, PresentAddr, d) :
        d \in { << 0, 0 >>, << 255, 0 >>, << 1, 0 >> } }
    \cup { Pdu(WRITE_SINGLE_COIL, AbsentAddr, d) :
        d \in { << 255, 0 >>, << 1, 0 >> } }

WriteRegPdus ==
    { Pdu(WRITE_SINGLE_REGISTER, PresentAddr, << 0, 7 >>),
      Pdu(WRITE_SINGLE_REGISTER, PresentAddr, << 255, 255 >>),
      Pdu(WRITE_SINGLE_REGISTER, AbsentAddr, << 0, 7 >>) }

\* write multiple coils: a function code outside the six
OtherPdus == { << 15, 0, 0, 0, 1, 1, 1 >> }

Pdus == ReadPdus \cup WriteCoilPdus \cup WriteRegPdus \cup OtherPdus

GoodFrames == { GoodFrame(PeerTid, PeerUid, p) : p \in Pdus }

\* Requests in whose function-specific fields Request.__init__ may find a
\* protocol violation
ViolationFrames ==
    { GoodFrame(PeerTid, PeerUid, Pdu(WRITE_SINGLE_COIL, PresentAddr, << 1, 0 >>)),
      GoodFrame(PeerTid, PeerUid, Pdu(READ_COILS, PresentAddr, << 0, 1 >>)) }

BadFrames ==
    LET p == Pdu(READ_HOLDING_REGISTERS, PresentAddr, << 0, 1 >>) IN
    { Wire(PeerTid, 1, Len(p) + 1, PeerUid, p),  \* protocol id not 0
      Wire(PeerTid, 0, 0, PeerUid, p),           \* declared length 0
      Wire(PeerTid, 0, Len(p) + 9, PeerUid, p),  \* declared length beyond the bytes
      Wire(PeerTid, 0, 3, PeerUid, p),           \* declared length cutting the PDU
      << 1, 2, 0 >> }                            \* fewer than 6 bytes

\* The frames the poll loop's peer sends
PollFrames ==
    LET p == Pdu(READ_HOLDING_REGISTERS, PresentAddr, << 0, 1 >>) IN
    { GoodFrame(PeerTid, PeerUid, p),
      GoodFrame(PeerTid, PeerUid + 1, p) }
    \cup BadFrames

NoRecv == [kind |-> "none", err |-> "", bytes |-> <<>>]
Data(b) == [kind |-> "data", err |-> "", bytes |-> b]
RecvError(e) == [kind |-> "oserror", err |-> e, bytes |-> <<>>]

RecvTimeouts == { RecvError("EAGAIN"), RecvError("ETIMEDOUT") }
AcceptTimeouts == { "EAGAIN", "ETIMEDOUT" }

\* accept with a timeout of t ms: on a listening socket a connection (while
\* socket ids last), a timeout (EAGAIN; a blocking accept that times out raises
\* ETIMEDOUT on some builds) or another failure; EINVAL on a socket that is not
\* listening; no call without a socket
AcceptOutcomes(t) ==
    IF sock = NoSock THEN {}
    ELSE IF socks[sock] # "listening" THEN { "EINVAL" }
    ELSE (IF nextSock <= MaxSockets THEN { "conn" } ELSE {})
         \cup { "EAGAIN", "ECONNABORTED" }
         \cup (IF t = 0 THEN {} ELSE { "ETIMEDOUT" })

\* recv on the active client socket after accept ended as acc: not called when
\* accept raised or there is no client; EBADF on a closed socket; else the
\* peer's bytes (none when it closed), a timeout, or another I/O failure
RecvOutcomes(acc, peerFrames) ==
    IF acc \notin { "conn", "EAGAIN" } THEN { NoRecv }
    ELSE IF acc # "conn" /\ client_sock = NoSock THEN { NoRecv }
    ELSE IF acc # "conn" /\ socks[client_sock] = "closed"
    THEN { RecvError("EBADF") }
    ELSE { Data(b) : b \in peerFrames \cup { <<>> } }
         \cup { RecvError("EAGAIN"), RecvError("ECONNRESET") }

\* The outcome of request construction: 0, or the exception code of the
\* protocol violation it found
ExcOutcomes(rcv) ==
    IF rcv.bytes \in ViolationFrames THEN { 0, ILLEGAL_DATA_VALUE } ELSE { 0 }

\* unit_addr_list arguments: None, or a list
UnitLists == { <<>>, << { PeerUid } >> }

---------------------------------------------------------------------------
(* State *)

InitStore ==
    [ COILS |-> (PresentAddr :> Scalar(0)) @@ (ListAddr :> List(<< 1, 0, 1 >>)),
      ISTS  |-> (PresentAddr :> Scalar(1)) @@ (ListAddr :> List(<< 0, 1 >>)),
      HREGS |-> (PresentAddr :> Scalar(5)) @@ (ListAddr :> List(<< 100, 200 >>)),
      IREGS |-> (PresentAddr :> Scalar(9)) @@ (ListAddr :> List(<< 3, 4 >>)) ]

Ret(kind, exc, request) == [kind |-> kind, exc |-> exc, request |-> request]

Call(op, acc, rcv, exc, ual, timeout, accept_timeout) ==
    [ op |-> op, acc |-> acc, rcv |-> rcv, exc |-> exc, ual |-> ual,
      timeout |-> timeout, accept_timeout |-> accept_timeout,
      sock_before |-> sock, client_before |-> client_sock,
      socks_before |-> socks, store_before |-> register_dict ]

\* TCP.__init__: a connected socket with nothing to read
NoBytes == [inflight |-> <<>>, buf |-> <<>>]

NoMCall ==
    [ op |-> "init", n |-> 0, slave_id |-> 0, pdu |-> <<>>, count |-> FALSE,
      trans_id |-> 0, sent |-> <<>>, response |-> NoRecv,
      result |-> [kind |-> "init", msg |-> "", code |-> 0, data |-> <<>>] ]

Init ==
    /\ sock = NoSock
    /\ client_sock = NoSock
    /\ is_bound = FALSE
    /\ req_tid = -1
    /\ socks = <<>>
    /\ nextSock = 1
    /\ register_dict = InitStore
    /\ frames = <<>>
    /\ effects = <<>>
    /\ ret = Ret("init", "", <<>>)
    /\ call = [ op |-> "init", acc |-> "", rcv |-> NoRecv, exc |-> 0, ual |-> <<>>,
                timeout |-> 0, accept_timeout |-> 0,
                sock_before |-> NoSock, client_before |-> NoSock,
                socks_before |-> <<>>, store_before |-> InitStore ]
    /\ poll_pc = "idle"
    /\ poll_timeout = 0
    /\ poll_ual = <<>>
    /\ start_ms = 0
    /\ elapsed = 0
    /\ now = 0
    /\ trans_id_ctr = 0
    /\ m_call = NoMCall
    /\ m_sock = NoBytes

---------------------------------------------------------------------------
(* Slave operations *)

\* TCPServer.get_is_bound
get_is_bound == is_bound

\* ModbusTCP.get_bound_status: get_is_bound's value; False if it raised, which
\* reading the flag does not
get_bound_status == get_is_bound

\* time.ticks_diff(ticks1, ticks2), far from the wrap of the tick counter
ticks_diff(ticks1, ticks2) == ticks1 - ticks2

\* TCPServer.bind. outcome: "ok", or the errno name of the OSError that
\* socket.bind raised.
Bind(outcome) ==
    /\ poll_pc = "idle"
    /\ nextSock <= MaxSockets
    /\ call' = Call("bind", outcome, NoRecv, 0, <<>>, 0, 0)
    /\ socks' = [i \in 1..nextSock |->
                   IF i = nextSock
                   THEN (IF outcome = "ok" THEN "listening" ELSE "new")
                   ELSE IF i = client_sock \/ i = sock THEN "closed"
                   ELSE socks[i]]
    /\ sock' = nextSock
    /\ nextSock' = nextSock + 1
    /\ is_bound' = IF outcome = "ok" THEN TRUE ELSE is_bound
    /\ ret' = IF outcome = "ok" THEN Ret("none", "", <<>>)
              ELSE Ret("raise", "OSError", <<>>)
    /\ frames' = <<>>
    /\ effects' = <<>>
    /\ UNCHANGED << client_sock, req_tid, register_dict >>
    /\ UNCHANGED pollVars
    /\ UNCHANGED masterVars

\* get_request and process on a listener that was never bound
NotBound(op) ==
    /\ poll_pc = "idle"
    /\ sock = NoSock
    /\ call' = Call(op, "", NoRecv, 0, <<>>, 0, 0)
    /\ ret' = Ret("raise", "Modbus TCP server not bound", <<>>)
    /\ frames' = <<>>
    /\ effects' = <<>>
    /\ UNCHANGED << sock, client_sock, is_bound, req_tid, socks, nextSock,
                    register_dict >>
    /\ UNCHANGED pollVars
    /\ UNCHANGED masterVars

\* ModbusTCP.process: get_request(unit_addr_list=self._addr_list, timeout=0),
\* then the dispatch of the request it returned.
Process(acc, rcv, exc) ==
    /\ poll_pc = "idle"
    /\ sock # NoSock
    /\ LET r == _accept_request(acc, rcv, addr_list, exc)
           effs == IF r.raised = "" /\ r.request # <<>>
                   THEN Dispatch(register_dict, r.request[1])
                   ELSE <<>>
       IN
       /\ call' = Call("process", acc, rcv, exc, addr_list, 0, 0)
       /\ client_sock' = r.client_sock
       /\ socks' = r.socks
       /\ nextSock' = r.nextSock
       /\ req_tid' = r.req_tid
       /\ effects' = effs
       /\ frames' = IF r.request # <<>>
                    THEN r.frames \o FramesOf(effs, r.request[1], r.req_tid,
                                              r.client_sock)
                    ELSE r.frames
       /\ register_dict' = StoreAfter(effs, register_dict)
       /\ ret' = IF r.raised # "" THEN Ret("raise", r.raised, <<>>)
                 ELSE IF r.request = <<>> THEN Ret("false", "", <<>>)
                 ELSE Ret("true", "", r.request)
    /\ UNCHANGED << sock, is_bound >>
    /\ UNCHANGED pollVars
    /\ UNCHANGED masterVars

\* TCPServer.get_request(unit_addr_list, timeout=0): the single attempt
GetRequest(unit_addr_list, acc, rcv, exc) ==
    /\ poll_pc = "idle"
    /\ sock # NoSock
    /\ LET r == _accept_request(acc, rcv, unit_addr_list, exc) IN
       /\ call' = Call("get_request", acc, rcv, exc, unit_addr_list, 0, 0)
       /\ client_sock' = r.client_sock
       /\ socks' = r.socks
       /\ nextSock' = r.nextSock
       /\ req_tid' = r.req_tid
       /\ frames' = r.frames
       /\ ret' = IF r.raised # "" THEN Ret("raise", r.raised, <<>>)
                 ELSE IF r.request = <<>> THEN Ret("none", "", <<>>)
                 ELSE Ret("request", "", r.request)
    /\ effects' = <<>>
    /\ UNCHANGED << sock, is_bound, register_dict >>
    /\ UNCHANGED pollVars
    /\ UNCHANGED masterVars

\* TCPServer.get_request(unit_addr_list, timeout) with timeout > 0, up to the
\* entry of the while loop
PollStart(unit_addr_list, timeout) ==
    /\ poll_pc = "idle"
    /\ sock # NoSock
    /\ timeout > 0
    /\ call' = Call("poll_start", "", NoRecv, 0, unit_addr_list, timeout, 0)
    /\ poll_pc' = "loop"
    /\ poll_timeout' = timeout
    /\ poll_ual' = unit_addr_list
    /\ start_ms' = now
    /\ elapsed' = 0
    /\ ret' = Ret("running", "", <<>>)
    /\ frames' = <<>>
    /\ effects' = <<>>
    /\ UNCHANGED << sock, client_sock, is_bound, req_tid, socks, nextSock,
                    register_dict, now >>
    /\ UNCHANGED masterVars

\* The accept timeout (ms) one iteration of get_request's loop hands to
\* _accept_request; settimeout gets it in seconds
AcceptTimeout ==
    IF client_sock = NoSock THEN poll_timeout - elapsed ELSE 0

\* get_request's elapsed after an iteration that ended at time t
Elapsed(t) == ticks_diff(start_ms, t)

\* One iteration of get_request's while loop. slack: the time the iteration
\* takes beyond its blocking calls.
PollIter(acc, rcv, exc, slack) ==
    /\ poll_pc = "loop"
    /\ LET r == _accept_request(acc, rcv, poll_ual, exc)
           dt == (IF acc \in AcceptTimeouts THEN AcceptTimeout ELSE 0)
                 + (IF rcv \in RecvTimeouts THEN RecvTimeoutMs ELSE 0)
                 + slack
       IN
       /\ now + dt <= MaxTime
       /\ now' = now + dt
       /\ call' = Call("poll_iter", acc, rcv, exc, poll_ual, poll_timeout,
                       AcceptTimeout)
       /\ client_sock' = r.client_sock
       /\ socks' = r.socks
       /\ nextSock' = r.nextSock
       /\ req_tid' = r.req_tid
       /\ frames' = r.frames
       /\ effects' = <<>>
       /\ IF r.raised # ""
          THEN /\ ret' = Ret("raise", r.raised, <<>>)
               /\ poll_pc' = "idle"
               /\ elapsed' = elapsed
          ELSE IF r.request # <<>>
          THEN /\ ret' = Ret("request", "", r.request)
               /\ poll_pc' = "idle"
               /\ elapsed' = elapsed
          ELSE /\ elapsed' = Elapsed(now + dt)
               /\ IF Elapsed(now + dt) > poll_timeout
                  THEN /\ ret' = Ret("none", "", <<>>)
                       /\ poll_pc' = "idle"
                  ELSE /\ ret' = Ret("running", "", <<>>)
                       /\ poll_pc' = "loop"
    /\ UNCHANGED << sock, is_bound, register_dict, poll_timeout, poll_ual, start_ms >>
    /\ UNCHANGED masterVars

---------------------------------------------------------------------------
(* Specifications *)

BindStep == \E outcome \in { "ok", "EADDRINUSE" } : Bind(outcome)

\* The dispatcher serving a peer
Next ==
    \/ BindStep
    \/ NotBound("process")
    \/ \E acc \in AcceptOutcomes(0) :
         \E rcv \in RecvOutcomes(acc, GoodFrames \cup BadFrames) :
           \E exc \in ExcOutcomes(rcv) : Process(acc, rcv, exc)

Spec == Init /\ [][Next]_vars

\* The listener polled directly
NextPoll ==
    \/ BindStep
    \/ NotBound("get_request")
    \/ \E ual \in UnitLists, acc \in AcceptOutcomes(0) :
         \E rcv \in RecvOutcomes(acc, PollFrames) :
           \E exc \in ExcOutcomes(rcv) : GetRequest(ual, acc, rcv, exc)
    \/ \E ual \in UnitLists, timeout \in { 500, 1000 } : PollStart(ual, timeout)
    \/ \E acc \in AcceptOutcomes(AcceptTimeout) :
         \E rcv \in RecvOutcomes(acc, PollFrames) :
           \E exc \in ExcOutcomes(rcv), slack \in { 0, RecvTimeoutMs } :
             PollIter(acc, rcv, exc, slack)

SpecPoll == Init /\ [][NextPoll]_vars

---------------------------------------------------------------------------
(* Master transport (TCP) *)

MResult(kind, msg, code, data) ==
    [kind |-> kind, msg |-> msg, code |-> code, data |-> data]

\* struct.pack('>H', n) with n beyond 16 bits: struct.error on CPython, the low
\* 16 bits on MicroPython
PackOutcomes(n) == IF n < TidModulus THEN { "ok" } ELSE { "raise", "truncate" }

\* TCP._create_mbap_hdr: the header bytes and the transaction id it returns
_create_mbap_hdr(slave_id, modbus_pdu) ==
    [ mbap_hdr |-> U16BE(trans_id_ctr) \o U16BE(0) \o U16BE(Len(modbus_pdu) + 1)
                   \o << slave_id >>,
      trans_id |-> trans_id_ctr,
      trans_id_ctr |-> trans_id_ctr + 1 ]

\* _validate_resp_hdr without the comparison of the transaction id
_validate_resp_hdr_no_tid(resp_bytes, trans_id, slave_id, function_code, count) ==
    IF Len(resp_bytes) < MBAP_HDR_LENGTH + 1
    THEN MResult("error", "unpack: buffer too small", 0, <<>>)
    ELSE
    LET rec_pid == U16At(resp_bytes, 3)
        rec_uid == resp_bytes[7]
        rec_fc == resp_bytes[8]
        hdr_length == IF count THEN MBAP_HDR_LENGTH + 2 ELSE MBAP_HDR_LENGTH + 1
    IN
    IF rec_pid # 0
    THEN MResult("error", "invalid protocol Id", 0, <<>>)
    ELSE IF slave_id # rec_uid
    THEN MResult("error", "wrong slave Id", 0, <<>>)
    ELSE IF rec_fc = function_code + ERROR_BIAS
    THEN MResult("error", "slave returned exception code", rec_fc, <<>>)
    ELSE MResult("data", "", 0, Slice(resp_bytes, hdr_length, Len(resp_bytes)))

\* TCP._validate_resp_hdr: the payload returned, or the error raised
_validate_resp_hdr(resp_bytes, trans_id, slave_id, function_code, count) ==
    IF Len(resp_bytes) < MBAP_HDR_LENGTH + 1
    THEN MResult("error", "unpack: buffer too small", 0, <<>>)
    ELSE
    LET rec_tid == U16At(resp_bytes, 1)
        rec_pid == U16At(resp_bytes, 3)
        rec_uid == resp_bytes[7]
        rec_fc == resp_bytes[8]
        hdr_length == IF count THEN MBAP_HDR_LENGTH + 2 ELSE MBAP_HDR_LENGTH + 1
    IN
    IF trans_id # rec_tid
    THEN MResult("error", "wrong transaction Id", 0, <<>>)
    ELSE IF rec_pid # 0
    THEN MResult("error", "invalid protocol Id", 0, <<>>)
    ELSE IF slave_id # rec_uid
    THEN MResult("error", "wrong slave Id", 0, <<>>)
    ELSE IF rec_fc = function_code + ERROR_BIAS
    THEN MResult("error", "slave returned exception code", rec_fc, <<>>)
    ELSE MResult("data", "", 0, Slice(resp_bytes, hdr_length, Len(resp_bytes)))

\* TCP._send_receive. pack: how struct.pack ended; resp: what recv returned
\* (bytes, or the OSError of the socket timeout).
_send_receive(slave_id, modbus_pdu, count, pack, resp) ==
    LET hdr == _create_mbap_hdr(slave_id, modbus_pdu) IN
    /\ trans_id_ctr' = hdr.trans_id_ctr
    /\ m_call' =
         [ op |-> "send_receive", n |-> m_call.n + 1,
           slave_id |-> slave_id, pdu |-> modbus_pdu,
           count |-> count, trans_id |-> hdr.trans_id,
           sent |-> IF pack = "raise" THEN <<>> ELSE hdr.mbap_hdr \o modbus_pdu,
           response |-> IF pack = "raise" THEN NoRecv ELSE resp,
           result |->
             IF pack = "raise"
             THEN MResult("error", "pack: value out of range", 0, <<>>)
             ELSE IF resp.kind = "oserror"
             THEN MResult("error", "timed out", 0, <<>>)
             ELSE _validate_resp_hdr(resp.bytes, hdr.trans_id, slave_id,
                                     modbus_pdu[1], count) ]
    /\ UNCHANGED m_sock
    /\ UNCHANGED slaveVars
    /\ UNCHANGED pollVars

\* The requests the master's caller issues: (slave_id, PDU, count flag)
MasterRequests ==
    { << PeerUid, Pdu(READ_HOLDING_REGISTERS, PresentAddr, << 0, 1 >>), TRUE >>,
      << PeerUid, Pdu(WRITE_SINGLE_REGISTER, PresentAddr, << 0, 7 >>), FALSE >> }

\* What the peer may answer to the ADU sent: any mix of right and wrong header
\* fields, a normal or an exception function code, two payloads; a cut header;
\* nothing in time
Responses(sent) ==
    LET tid == U16At(sent, 1)
        uid == sent[7]
        fc == sent[8]
    IN
    { Data(Wire(t, p, Len(d) + 2, u, << f >> \o d)) :
        t \in { tid, (tid + 1) % TidModulus },
        p \in { 0, 1 },
        u \in { uid, uid + 1 },
        f \in { fc, fc + ERROR_BIAS },
        d \in { << ILLEGAL_DATA_ADDRESS >>, << 2, 0, 7 >> } }
    \cup { Data(<< 1, 2, 0 >>), RecvError("ETIMEDOUT") }

\* The answer of a slave that echoes the header it received
Echo(sent) ==
    Data(Wire(U16At(sent, 1), 0, 4, sent[7], << sent[8], 2, 0, 7 >>))

SendReceive(req, pack, resp) ==
    /\ trans_id_ctr < MaxSends
    /\ _send_receive(req[1], req[2], req[3], pack, resp)

\* The master against an arbitrary peer
NextMaster ==
    \E req \in MasterRequests :
      \E pack \in PackOutcomes(trans_id_ctr) :
        \E resp \in Responses(_create_mbap_hdr(req[1], req[2]).mbap_hdr \o req[2]) :
          SendReceive(req, pack, resp)

SpecMaster == Init /\ [][NextMaster]_vars

SeqSend(pack) ==
    LET pdu == Pdu(READ_HOLDING_REGISTERS, PresentAddr, << 0, 1 >>) IN
    /\ trans_id_ctr <= TidModulus
    /\ _send_receive(PeerUid, pdu, TRUE, pack,
                     Echo(_create_mbap_hdr(PeerUid, pdu).mbap_hdr \o pdu))

\* The master against a slave that answers every request correctly
NextSeq == \E pack \in PackOutcomes(trans_id_ctr) : SeqSend(pack)

SpecSeq == Init /\ [][NextSeq]_vars

---------------------------------------------------------------------------
(* Master and slave over one connection *)

\* functions.read_holding_registers: the request PDU
build_read_holding_registers(starting_address, quantity) ==
    Pdu(READ_HOLDING_REGISTERS, starting_address, U16BE(quantity))

\* functions.write_single_register: the request PDU
build_write_single_register(register_address, register_value) ==
    Pdu(WRITE_SINGLE_REGISTER, register_address, U16BE(register_value))

\* functions.write_multiple_registers: the request PDU
build_write_multiple_registers(starting_address, register_values) ==
    << 16 >> \o U16BE(starting_address) \o U16BE(Len(register_values))
    \o << 2 * Len(register_values) >> \o PackRegs(register_values)

\* socket.recv(bufsize) when the bytes sent have all arrived: at most bufsize
\* of them
recv(stream, bufsize) == Slice(stream, 0, bufsize)

\* functions.validate_resp_data for a write: the echoed address and value
\* (quantity, for a multiple write) are the ones sent
validate_resp_data(data, address, value) ==
    /\ Len(data) = 4
    /\ U16At(data, 1) = address
    /\ U16At(data, 3) = value

\* struct.unpack of one 16-bit big-endian word, 'h' (signed) or 'H'
Short(hi, lo, signed) ==
    IF signed /\ hi >= 128 THEN hi * 256 + lo - TidModulus ELSE hi * 256 + lo

\* TCP._to_short on an even number of bytes: int(len / 2) words
RECURSIVE _to_short(_, _)
_to_short(byte_array, signed) ==
    IF Len(byte_array) < 2 THEN <<>>
    ELSE << Short(byte_array[1], byte_array[2], signed) >>
         \o _to_short(Tail(Tail(byte_array)), signed)

\* The register store of the end-to-end scenarios: scalar holding registers at
\* 5, 6, 7 and 10
E2EStore ==
    [ InitStore EXCEPT !.HREGS = (5 :> Scalar(100)) @@ (6 :> Scalar(200))
                                 @@ (7 :> Scalar(300)) @@ (10 :> Scalar(0)) ]

\* The master's calls: write_single_register(slave_addr, register_address,
\* register_value) and read_holding_registers(slave_addr, starting_addr,
\* register_qty), signed left at its default (True)
E2ERequests ==
    { << 1, build_write_single_register(10, v), FALSE >> : v \in { 42, 7 } }
    \cup { << 1, build_write_single_register(AbsentAddr, 42), FALSE >> }
    \cup { << 1, build_read_holding_registers(a, q), TRUE >> :
             a \in { 5, 10 }, q \in { 1, 2 } }

InitE2E ==
    /\ sock = NoSock
    /\ client_sock = NoSock
    /\ is_bound = FALSE
    /\ req_tid = -1
    /\ socks = <<>>
    /\ nextSock = 1
    /\ register_dict = E2EStore
    /\ frames = <<>>
    /\ effects = <<>>
    /\ ret = Ret("init", "", <<>>)
    /\ call = [ op |-> "init", acc |-> "", rcv |-> NoRecv, exc |-> 0, ual |-> <<>>,
                timeout |-> 0, accept_timeout |-> 0,
                sock_before |-> NoSock, client_before |-> NoSock,
                socks_before |-> <<>>, store_before |-> E2EStore ]
    /\ poll_pc = "idle"
    /\ poll_timeout = 0
    /\ poll_ual = <<>>
    /\ start_ms = 0
    /\ elapsed = 0
    /\ now = 0
    /\ trans_id_ctr = 0
    /\ m_call = NoMCall
    /\ m_sock = NoBytes

\* The slave binds once; the master connects to it afterwards
E2EBind ==
    /\ sock = NoSock
    /\ Bind("ok")

\* TCP._send_receive up to its recv: the header is built, the ADU is sent and
\* the master waits for the response
MasterSend(req) ==
    LET hdr == _create_mbap_hdr(req[1], req[2]) IN
    /\ is_bound
    /\ m_call.op # "awaiting"
    /\ m_call.n < MaxSends
    /\ trans_id_ctr < TidModulus
    /\ trans_id_ctr' = hdr.trans_id_ctr
    /\ m_call' = [ op |-> "awaiting", n |-> m_call.n + 1,
                   slave_id |-> req[1], pdu |-> req[2], count |-> req[3],
                   trans_id |-> hdr.trans_id, sent |-> hdr.mbap_hdr \o req[2],
                   response |-> NoRecv,
                   result |-> MResult("init", "", 0, <<>>) ]
    /\ UNCHANGED m_sock
    /\ UNCHANGED slaveVars
    /\ UNCHANGED pollVars

\* The ADU the master sent reached the slave's last process call
Served == call.op = "process" /\ call.rcv = Data(recv(m_call.sent, 128))

\* The slave's process call that reads the master's ADU: it accepts the
\* master's connection when it has none
SlaveServe ==
    /\ m_call.op = "awaiting"
    /\ ~Served
    /\ Process(IF client_sock = NoSock THEN "conn" ELSE "EAGAIN",
               Data(recv(m_call.sent, 128)), 0)

\* TCP.read_holding_registers / TCP.write_single_register /
\* TCP.write_multiple_registers from the recv of _send_receive on: the slave's
\* frame is validated and decoded
MasterReturn ==
    /\ m_call.op = "awaiting"
    /\ Served
    /\ LET resp == IF frames # <<>> THEN Data(frames[1].adu)
                   ELSE RecvError("ETIMEDOUT")
           r == IF resp.kind = "oserror"
                THEN MResult("error", "timed out", 0, <<>>)
                ELSE _validate_resp_hdr(resp.bytes, m_call.trans_id,
                                        m_call.slave_id, m_call.pdu[1],
                                        m_call.count)
       IN
       m_call' =
         [ m_call EXCEPT
             !.response = resp,
             !.op = IF m_call.pdu[1] = READ_HOLDING_REGISTERS
                    THEN "read_holding_registers"
                    ELSE IF m_call.pdu[1] = WRITE_SINGLE_REGISTER
                    THEN "write_single_register"
                    ELSE "write_multiple_registers",
             !.result =
                IF r.kind = "error" THEN r
                ELSE IF m_call.pdu[1] = READ_HOLDING_REGISTERS
                THEN (IF Len(r.data) % 2 = 0
                      THEN MResult("data", "", 0, _to_short(r.data, TRUE))
                      ELSE MResult("error", "unpack: size mismatch", 0, <<>>))
                ELSE IF validate_resp_data(r.data, U16At(m_call.pdu, 2),
                                           U16At(m_call.pdu, 4))
                THEN MResult("true", "", 0, <<>>)
                ELSE MResult("false", "", 0, <<>>) ]
    /\ UNCHANGED << trans_id_ctr, m_sock >>
    /\ UNCHANGED slaveVars
    /\ UNCHANGED pollVars

NextE2E ==
    \/ E2EBind
    \/ \E req \in E2ERequests : MasterSend(req)
    \/ SlaveServe
    \/ MasterReturn

SpecE2E == InitE2E /\ [][NextE2E]_vars

\* Values of the transaction counter at which the codec is exercised
CodecTids == { 0, 255, 256, TidModulus - 1 }

\* n registers holding 1 .. n
Registers(n) == [i \in 1..n |-> i]

\* (slave_id, PDU, count flag) of the calls whose frames are encoded and
\* decoded: 5-byte PDUs, and the PDUs of write_multiple_registers with 57 and
\* 60 registers (120 and 126 bytes)
CodecRequests ==
    { << u, p, c >> :
        u \in { 0, 1, 255 },
        << p, c >> \in { << build_read_holding_registers(5, 1), TRUE >>,
                         << build_write_single_register(10, 42), FALSE >>,
                         << build_write_multiple_registers(5, Registers(57)), FALSE >>,
                         << build_write_multiple_registers(5, Registers(60)), FALSE >> } }

InitCodec ==
    /\ sock = NoSock
    /\ client_sock = NoSock
    /\ is_bound = FALSE
    /\ req_tid = -1
    /\ socks = <<>>
    /\ nextSock = 1
    /\ register_dict = E2EStore
    /\ frames = <<>>
    /\ effects = <<>>
    /\ ret = Ret("init", "", <<>>)
    /\ call = [ op |-> "init", acc |-> "", rcv |-> NoRecv, exc |-> 0, ual |-> <<>>,
                timeout |-> 0, accept_timeout |-> 0,
                sock_before |-> NoSock, client_before |-> NoSock,
                socks_before |-> <<>>, store_before |-> E2EStore ]
    /\ poll_pc = "idle"
    /\ poll_timeout = 0
    /\ poll_ual = <<>>
    /\ start_ms = 0
    /\ elapsed = 0
    /\ now = 0
    /\ trans_id_ctr \in CodecTids
    /\ m_call = NoMCall
    /\ m_sock = NoBytes

NextCodec ==
    \/ E2EBind
    \/ \E req \in CodecRequests : MasterSend(req)
    \/ SlaveServe
    \/ MasterReturn

\* Frames encoded by the master and decoded by the slave, for transaction
\* counters, unit ids and PDUs drawn from bounded sets
SpecCodec == InitCodec /\ [][NextCodec]_vars

---------------------------------------------------------------------------
(* Master transport whose responses may come late *)

\* What recv(256) leaves in the socket's buffer
Unread(stream) == SubSeq(stream, 256 + 1, Len(stream))

\* TCP._send_receive against a slave that answers every request correctly
\* (Echo), over a connection that may delay the answer. timely: the bytes on
\* their way, this call's answer included, arrive within the socket timeout.
\* recv(256) returns at once what the buffer holds; with an empty buffer it
\* returns the bytes that arrive, or times out.
LateSendReceive(req, timely) ==
    LET hdr == _create_mbap_hdr(req[1], req[2])
        sent == hdr.mbap_hdr \o req[2]
        reply == Echo(sent).bytes
        coming == m_sock.inflight \o reply
        readable == IF m_sock.buf # <<>> THEN m_sock.buf
                    ELSE IF timely THEN coming ELSE <<>>
        resp == IF readable = <<>> THEN RecvError("ETIMEDOUT")
                ELSE Data(recv(readable, 256))
    IN
    /\ trans_id_ctr < MaxSends
    /\ trans_id_ctr' = hdr.trans_id_ctr
    /\ m_sock' = IF m_sock.buf # <<>>
                 THEN (IF timely
                       THEN [inflight |-> <<>>, buf |-> Unread(m_sock.buf) \o coming]
                       ELSE [inflight |-> coming, buf |-> Unread(m_sock.buf)])
                 ELSE (IF timely
                       THEN [inflight |-> <<>>, buf |-> Unread(coming)]
                       ELSE [inflight |-> coming, buf |-> <<>>])
    /\ m_call' =
         [ op |-> "send_receive", n |-> m_call.n + 1,
           slave_id |-> req[1], pdu |-> req[2], count |-> req[3],
           trans_id |-> hdr.trans_id, sent |-> sent,
           response |-> resp, timely |-> timely,
           result |->
             IF resp.kind = "oserror"
             THEN MResult("error", "timed out", 0, <<>>)
             ELSE _validate_resp_hdr(resp.bytes, hdr.trans_id, req[1],
                                     req[2][1], req[3]) ]
    /\ UNCHANGED slaveVars
    /\ UNCHANGED pollVars

\* The bytes on their way to the master arrive
Deliver ==
    /\ m_sock.inflight # <<>>
    /\ m_sock' = [inflight |-> <<>>, buf |-> m_sock.buf \o m_sock.inflight]
    /\ UNCHANGED << trans_id_ctr, m_call >>
    /\ UNCHANGED slaveVars
    /\ UNCHANGED pollVars

NextLate ==
    \/ \E req \in E2ERequests, timely \in BOOLEAN : LateSendReceive(req, timely)
    \/ Deliver

SpecLate == Init /\ [][NextLate]_vars

---------------------------------------------------------------------------
(* Claims *)

\* The PDU of a frame the slave sent
PduOf(frame) == Slice(frame.adu, MBAP_HDR_LENGTH, Len(frame.adu))

\* The listener of the last call was bound and listening when it was called
WasListening ==
    /\ call.sock_before # NoSock
    /\ call.socks_before[call.sock_before] = "listening"

\* The last call was a process call that obtained a parsed request
Dispatched == call.op = "process" /\ ret.kind = "true"

\* C1: get_request with timeout > 0 does not loop beyond its deadline: once an
\* iteration that produced no request ends later than timeout after the call
\* began, the call has returned "no request" and is not in its loop any more.
C1_PollReturnsAtDeadline ==
    poll_pc = "loop" => now - start_ms <= poll_timeout

\* C2: on a fresh master transport the n-th send (n counted from 0) carries
\* transaction id n mod 2^16 in its MBAP header and, answered correctly by the
\* slave, succeeds: also the send after id 65535, which carries id 0.
C2_TransIdWraps ==
    m_call.op = "send_receive" =>
        /\ m_call.sent # <<>>
        /\ U16At(m_call.sent, 1) = (m_call.n - 1) % TidModulus
        /\ m_call.result.kind = "data"

\* C3: a response whose transaction, protocol and unit id match and whose
\* function code is the expected one + 0x80 fails with the remote-exception
\* error, and the exception code surfaced is the byte after the function code.
C3_RemoteExceptionCode ==
    LET b == m_call.response.bytes IN
    ( /\ m_call.op = "send_receive"
      /\ m_call.response.kind = "data"
      /\ Len(b) >= MBAP_HDR_LENGTH + 2
      /\ U16At(b, 1) = m_call.trans_id
      /\ U16At(b, 3) = 0
      /\ b[7] = m_call.slave_id
      /\ b[8] = m_call.pdu[1] + ERROR_BIAS )
    => /\ m_call.result.kind = "error"
       /\ m_call.result.msg = "slave returned exception code"
       /\ m_call.result.code = b[MBAP_HDR_LENGTH + 2]

ProtocolMismatch ==
    { "wrong transaction Id", "invalid protocol Id", "wrong slave Id" }

\* C4: a response whose transaction id differs from the one sent, whose protocol
\* id is not 0 or whose unit id differs from the expected one fails with a
\* correlation error and returns no payload, whatever its function code and
\* payload; data is returned only from a response carrying the transaction id
\* sent in that call.
C4_CorrelationChecked ==
    LET b == m_call.response.bytes IN
    (m_call.op = "send_receive" /\ m_call.response.kind = "data") =>
        /\ ( /\ Len(b) >= MBAP_HDR_LENGTH + 1
             /\ \/ U16At(b, 1) # m_call.trans_id
                \/ U16At(b, 3) # 0
                \/ b[7] # m_call.slave_id )
           => /\ m_call.result.kind = "error"
              /\ m_call.result.msg \in ProtocolMismatch
              /\ m_call.result.data = <<>>
        /\ m_call.result.kind = "data"
           => /\ Len(b) >= MBAP_HDR_LENGTH + 1
              /\ U16At(b, 1) = U16At(m_call.sent, 1)
              /\ U16At(b, 1) = m_call.trans_id
              /\ U16At(b, 3) = 0
              /\ b[7] = m_call.slave_id

\* C4's case: a response that differs from the request in the transaction id
\* alone, with an exception function code, was refused as uncorrelated
C4_Witness ==
    LET b == m_call.response.bytes IN
    /\ m_call.op = "send_receive"
    /\ m_call.response.kind = "data"
    /\ Len(b) >= MBAP_HDR_LENGTH + 1
    /\ U16At(b, 1) # m_call.trans_id
    /\ U16At(b, 3) = 0
    /\ b[7] = m_call.slave_id
    /\ b[8] = m_call.pdu[1] + ERROR_BIAS
    /\ m_call.result.msg = "wrong transaction Id"

\* C5: after bind completes the previous listening and client sockets are
\* closed, the listener holds a fresh listening socket and no active client
\* connection, and the bound-flag is true.
C5_BindResetsConnection ==
    (call.op = "bind" /\ ret.kind = "none") =>
        /\ is_bound
        /\ sock \notin DOMAIN call.socks_before
        /\ socks[sock] = "listening"
        /\ call.sock_before # NoSock => socks[call.sock_before] = "closed"
        /\ call.client_before # NoSock => socks[call.client_before] = "closed"
        /\ client_sock = NoSock

\* C6: get_request on a bound listener never propagates an exception; a timeout
\* on accept or receive and an empty read yield no request and keep the active
\* connection; an I/O failure on receive that is not a timeout closes and
\* discards the active connection and yields no request.
C6_PollNeverRaises ==
    (call.op \in { "get_request", "poll_iter" } /\ WasListening) =>
        /\ ret.kind # "raise"
        /\ (call.rcv \in RecvTimeouts \/ call.rcv = Data(<<>>))
           => /\ ret.request = <<>>
              /\ client_sock # NoSock
              /\ socks[client_sock] = "connected"
        /\ (call.rcv.kind = "oserror" /\ call.rcv \notin RecvTimeouts)
           => /\ ret.request = <<>>
              /\ client_sock = NoSock

\* C7: a write-single-coil request at a present address with first data byte
\* 0x00 is confirmed and leaves the coil false, with 0xFF is confirmed and
\* leaves it true, with any other byte gets the ILLEGAL_DATA_VALUE exception
\* response and no confirmation, and leaves the whole store unchanged.
C7_WriteCoil ==
    (Dispatched /\ ret.request[1].function = WRITE_SINGLE_COIL
                /\ ret.request[1].register_addr \in DOMAIN call.store_before.COILS)
    => LET q == ret.request[1]
           a == q.register_addr
           confirmed == /\ Len(frames) = 1
                        /\ PduOf(frames[1])
                             = << WRITE_SINGLE_COIL >> \o U16BE(a) \o q.data
       IN
       /\ q.data[1] = 0 => confirmed /\ register_dict.COILS[a] = Scalar(0)
       /\ q.data[1] = 255 => confirmed /\ register_dict.COILS[a] = Scalar(1)
       /\ q.data[1] \notin { 0, 255 }
          => /\ Len(frames) = 1
             /\ PduOf(frames[1])
                  = << WRITE_SINGLE_COIL + ERROR_BIAS, ILLEGAL_DATA_VALUE >>
             /\ register_dict = call.store_before

\* C7's case: a coil that was false was written with 0xFF and is true
C7_Witness ==
    /\ Dispatched
    /\ ret.request[1].function = WRITE_SINGLE_COIL
    /\ ret.request[1].register_addr \in DOMAIN call.store_before.COILS
    /\ ret.request[1].data[1] = 255
    /\ call.store_before.COILS[ret.request[1].register_addr] = Scalar(0)
    /\ register_dict.COILS[ret.request[1].register_addr] = Scalar(1)
    /\ Len(frames) = 1

\* The register type the claims give each read function code
ReadRegType(function) ==
    CASE function = 1 -> "COILS"
      [] function = 2 -> "ISTS"
      [] function = 3 -> "HREGS"
      [] function = 4 -> "IREGS"

\* C8: a read request (function codes 1-4) for an address absent from the store
\* of its register type gets exactly the ILLEGAL_DATA_ADDRESS exception
\* response; for a present address exactly the normal response carrying the
\* stored value, a scalar as a one-element sequence.
C8_ReadAccess ==
    (Dispatched /\ ret.request[1].function \in 1..4)
    => LET q == ret.request[1]
           t == ReadRegType(q.function)
           a == q.register_addr
           stored == call.store_before[t][a]
       IN
       /\ Len(frames) = 1
       /\ register_dict = call.store_before
       /\ IF a \notin DOMAIN call.store_before[t]
          THEN PduOf(frames[1]) = << q.function + ERROR_BIAS, ILLEGAL_DATA_ADDRESS >>
          ELSE /\ PduOf(frames[1])
                    = response(q.function, a, q.data,
                               IF stored.is_list THEN stored.val
                               ELSE << stored.val[1] >>)
               /\ \E i \in 1..Len(effects) :
                    /\ effects[i].e = "send_response"
                    /\ effects[i].values = stored.val
                    /\ Len(effects[i].values) = (IF stored.is_list
                                                 THEN Len(stored.val) ELSE 1)

\* C8's case: a read of discrete inputs at an absent address was answered with
\* the exception response
C8_Witness ==
    /\ Dispatched
    /\ ret.request[1].function = READ_DISCRETE_INPUTS
    /\ ret.request[1].register_addr \notin DOMAIN call.store_before.ISTS
    /\ Len(frames) = 1
    /\ PduOf(frames[1])
         = << READ_DISCRETE_INPUTS + ERROR_BIAS, ILLEGAL_DATA_ADDRESS >>

\* C9: a parsed request whose function code is none of 1..6 gets the
\* ILLEGAL_FUNCTION exception response and is not dispatched: the store is
\* neither read nor modified and no change notification is fired.
C9_IllegalFunction ==
    (Dispatched /\ ret.request[1].function \notin 1..6)
    => /\ Len(frames) = 1
       /\ PduOf(frames[1])
            = << ret.request[1].function + ERROR_BIAS, ILLEGAL_FUNCTION >>
       /\ \A i \in 1..Len(effects) : effects[i].e = "send_exception"
       /\ register_dict = call.store_before

\* C9's case: a write-multiple-coils request was answered with ILLEGAL_FUNCTION
C9_Witness ==
    /\ Dispatched
    /\ ret.request[1].function = 15
    /\ Len(frames) = 1
    /\ PduOf(frames[1]) = << 15 + ERROR_BIAS, ILLEGAL_FUNCTION >>
    /\ effects # <<>>

\* C10, as stated: a process call that obtains a parsed request sends exactly
\* one frame and reports true; it reports false only when no request was
\* produced, and then nothing is sent and the store is untouched.
C10_NothingSentOnFalse ==
    call.op = "process" =>
        /\ ret.kind = "true" => ret.request # <<>> /\ Len(frames) = 1
        /\ ret.kind = "false"
           => /\ ret.request = <<>>
              /\ frames = <<>>
              /\ register_dict = call.store_before

\* The last call's request construction failed with a protocol violation
ConstructionFailed ==
    /\ call.rcv.kind = "data"
    /\ Len(call.rcv.bytes) >= MBAP_HDR_LENGTH - 1
    /\ RequestOutcome(UidAndPdu(call.rcv.bytes), call.exc) = "violation"

\* C10, amended: a process call that obtains a parsed request sends exactly one
\* frame (a normal or an exception response) and reports true; it reports false
\* only when no request was produced, and then the dispatcher sends nothing and
\* the store is untouched: the only frame such a call can send is the
\* listener's exception response to a request whose construction failed.
C10_OneFramePerRequest ==
    call.op = "process" =>
        /\ ret.kind = "true"
           => /\ ret.request # <<>>
              /\ Len(frames) = 1
              /\ Cardinality({ i \in 1..Len(effects) :
                     effects[i].e \in { "send_response", "send_exception" } }) = 1
              /\ frames[1].sock = client_sock
        /\ ret.kind = "false"
           => /\ ret.request = <<>>
              /\ effects = <<>>
              /\ register_dict = call.store_before
              /\ frames # <<>>
                 => /\ ConstructionFailed
                    /\ Len(frames) = 1
                    /\ PduOf(frames[1])[1] >= ERROR_BIAS
        /\ ret.kind \in { "true", "false", "raise" }

\* C10's case: request construction failed, the listener answered with an
\* exception response and process reported false
C10_Witness ==
    /\ call.op = "process"
    /\ ret.kind = "false"
    /\ ConstructionFailed
    /\ Len(frames) = 1
    /\ register_dict = call.store_before

\* C11: at most one client socket is open at any time, and it is the active
\* one: every accepted client socket that is not the active one is closed; when
\* accept returns a connection while another is active, the previous client
\* socket is closed and is not the active one any more.
C11_OneClient ==
    /\ \A i \in DOMAIN socks : socks[i] = "connected" => i = client_sock
    /\ Cardinality({ i \in DOMAIN socks : socks[i] = "connected" }) <= 1
    /\ (call.op = "process" /\ call.acc = "conn" /\ call.client_before # NoSock)
       => /\ socks[call.client_before] = "closed"
          /\ client_sock # call.client_before

\* C11's case: a second client connected while the first was active; the first
\* was closed and the second is the active connection
C11_Witness ==
    /\ call.op = "process"
    /\ call.acc = "conn"
    /\ call.client_before # NoSock
    /\ call.socks_before[call.client_before] = "connected"
    /\ socks[call.client_before] = "closed"
    /\ client_sock \notin { NoSock, call.client_before }
    /\ socks[client_sock] = "connected"

\* C12: over one connection between a master and a bound slave that polls and
\* dispatches, write_single_register(unit, a, v) for a holding register a
\* present in the store returns true with the store holding HREGS[a] = v, and
\* read_holding_registers(unit, a, q) for present addresses a .. a+q-1 returns
\* exactly the q stored values.
C12_EndToEnd ==
    LET a == U16At(m_call.pdu, 2)
        x == U16At(m_call.pdu, 4)
    IN
    /\ (m_call.op = "write_single_register" /\ a \in DOMAIN E2EStore.HREGS)
       => /\ m_call.result.kind = "true"
          /\ register_dict.HREGS[a] = Scalar(x)
    /\ ( /\ m_call.op = "read_holding_registers"
         /\ \A i \in a..(a + x - 1) : i \in DOMAIN E2EStore.HREGS )
       => /\ m_call.result.kind = "data"
          /\ m_call.result.data
               = [i \in 1..x |-> register_dict.HREGS[a + i - 1].val[1]]

\* C13: the frame the master builds for a transaction id, a unit id and a PDU
\* has protocol id 0 and length field len(PDU) + 1, and the slave's decoding of
\* it (the 6-byte pre-header, then the region the declared length gives)
\* recovers that transaction id, unit id and PDU, also in the listener that
\* received the frame whole; the frames the slave sends have protocol id 0 and
\* length field len(PDU) + 1 too.
C13_RoundTrip ==
    /\ m_call.sent # <<>>
       => /\ U16At(m_call.sent, 3) = 0
          /\ U16At(m_call.sent, 5) = Len(m_call.pdu) + 1
          /\ U16At(m_call.sent, 1) = m_call.trans_id
          /\ UidAndPdu(m_call.sent) = << m_call.slave_id >> \o m_call.pdu
    /\ (m_call.sent # <<>> /\ Served /\ call.rcv.bytes = m_call.sent)
       => /\ req_tid = m_call.trans_id
          /\ UidAndPdu(call.rcv.bytes) = << m_call.slave_id >> \o m_call.pdu
          /\ ret.kind = "true"
             => /\ ret.request[1].unit_addr = m_call.slave_id
                /\ ret.request[1].function = m_call.pdu[1]
    /\ \A i \in 1..Len(frames) :
          /\ U16At(frames[i].adu, 3) = 0
          /\ U16At(frames[i].adu, 5) = Len(PduOf(frames[i])) + 1

\* C13's case: a frame with transaction id 65535 and unit id 255 was decoded by
\* the slave, which answered it
C13_Witness ==
    /\ m_call.sent # <<>>
    /\ m_call.trans_id = TidModulus - 1
    /\ m_call.slave_id = 255
    /\ Served
    /\ call.rcv.bytes = m_call.sent
    /\ req_tid = TidModulus - 1
    /\ UidAndPdu(call.rcv.bytes) = << 255 >> \o m_call.pdu
    /\ Len(frames) = 1

\* The positions of the effects of kind e in the last dispatch
EffectsAt(e) == { i \in 1..Len(effects) : effects[i].e = e }

\* The last call dispatched a write request to a present address with a valid
\* value: a single register, or a single coil with 0x00 or 0xFF
SuccessfulWrite ==
    /\ Dispatched
    /\ ret.request[1].function \in { WRITE_SINGLE_COIL, WRITE_SINGLE_REGISTER }
    /\ ret.request[1].register_addr
         \in DOMAIN call.store_before[RegType(ret.request[1].function)]
    /\ \/ ret.request[1].function = WRITE_SINGLE_REGISTER
       \/ ret.request[1].data[1] \in { 0, 255 }

\* C14: a successful write sends the confirmation first, while the store still
\* holds the old value, then commits the value, then notifies the
\* register-changed observer with the new value and the same register type and
\* address; each of the three happens once.
C14_SendCommitNotify ==
    SuccessfulWrite =>
      LET q == ret.request[1]
          t == IF q.function = WRITE_SINGLE_COIL THEN "COILS" ELSE "HREGS"
          a == q.register_addr
          v == IF q.function = WRITE_SINGLE_COIL
               THEN (IF q.data[1] = 255 THEN 1 ELSE 0)
               ELSE U16At(q.data, 1)
      IN
      \E i, j, k \in 1..Len(effects) :
        /\ i < j /\ j < k
        /\ EffectsAt("send_response") = { i }
        /\ EffectsAt("set") = { j }
        /\ EffectsAt("changed") = { k }
        /\ EffectsAt("send_exception") = {}
        /\ StoreAfter(SubSeq(effects, 1, i), call.store_before) = call.store_before
        /\ effects[j].reg_type = t /\ effects[j].address = a
        /\ effects[j].values = << v >>
        /\ StoreAfter(SubSeq(effects, 1, j), call.store_before)[t][a] = Scalar(v)
        /\ effects[k].reg_type = t /\ effects[k].address = a
        /\ effects[k].values = << v >>
        /\ register_dict[t][a] = Scalar(v)
        /\ Len(frames) = 1
        /\ PduOf(frames[1]) = << q.function >> \o U16BE(a) \o q.data

\* C14's case: a holding register was written with a value it did not hold
C14_Witness ==
    /\ SuccessfulWrite
    /\ ret.request[1].function = WRITE_SINGLE_REGISTER
    /\ call.store_before.HREGS[ret.request[1].register_addr]
         # register_dict.HREGS[ret.request[1].register_addr]
    /\ EffectsAt("changed") # {}
    /\ Len(frames) = 1

\* C15: a write request (single coil or single register) to an address absent
\* from the store of its register type gets the ILLEGAL_DATA_ADDRESS exception
\* response whatever its data is, with the store unchanged and no change
\* notification; the store is modified and the observer notified only by a
\* write request that is answered with a confirmation.
C15_AbsentAddressWrite ==
    /\ ( /\ Dispatched
         /\ ret.request[1].function \in { WRITE_SINGLE_COIL, WRITE_SINGLE_REGISTER }
         /\ ret.request[1].register_addr
              \notin DOMAIN call.store_before[RegType(ret.request[1].function)] )
       => /\ Len(frames) = 1
          /\ PduOf(frames[1])
               = << ret.request[1].function + ERROR_BIAS, ILLEGAL_DATA_ADDRESS >>
          /\ register_dict = call.store_before
          /\ EffectsAt("set") = {}
          /\ EffectsAt("changed") = {}
    /\ ( \/ register_dict # call.store_before
         \/ EffectsAt("set") # {}
         \/ EffectsAt("changed") # {} )
       => /\ Dispatched
          /\ ret.request[1].function \in { WRITE_SINGLE_COIL, WRITE_SINGLE_REGISTER }
          /\ Len(frames) = 1
          /\ PduOf(frames[1])
               = << ret.request[1].function >>
                 \o U16BE(ret.request[1].register_addr) \o ret.request[1].data

\* C15's case: a single-coil write with an invalid data byte to an absent
\* address was answered with ILLEGAL_DATA_ADDRESS
C15_Witness ==
    /\ Dispatched
    /\ ret.request[1].function = WRITE_SINGLE_COIL
    /\ ret.request[1].register_addr \notin DOMAIN call.store_before.COILS
    /\ ret.request[1].data[1] \notin { 0, 255 }
    /\ Len(frames) = 1
    /\ PduOf(frames[1]) = << WRITE_SINGLE_COIL + ERROR_BIAS, ILLEGAL_DATA_ADDRESS >>
    /\ register_dict = call.store_before

\* C16: in get_request's loop the accept timeout an iteration hands to
\* _accept_request is zero when there is an active client connection and
\* otherwise the remaining time, timeout minus the time since the call began;
\* it never exceeds timeout.
C16_AcceptTimeoutIsRemaining ==
    /\ poll_pc = "loop"
       => AcceptTimeout = (IF client_sock = NoSock
                           THEN poll_timeout - (now - start_ms) ELSE 0)
    /\ call.op = "poll_iter"
       => /\ call.accept_timeout <= call.timeout
          /\ call.client_before # NoSock => call.accept_timeout = 0

\* A non-empty byte sequence with a framing error: a header of fewer than 6
\* bytes, a protocol id other than 0, or a declared length of 0 or beyond the
\* bytes received
FramingError(b) ==
    /\ Len(b) > 0
    /\ \/ Len(b) < MBAP_HDR_LENGTH - 1
       \/ U16At(b, 3) # 0
       \/ U16At(b, 5) = 0
       \/ U16At(b, 5) > Len(b) - (MBAP_HDR_LENGTH - 1)

\* The client socket the last call's recv read from
RecvSock ==
    IF call.acc = "conn" THEN Len(call.socks_before) + 1 ELSE call.client_before

\* C17: when the bytes received have a framing error, with or without a list
\* of allowed unit ids, _accept_request closes and discards the active client
\* connection, yields no request, sends nothing and raises no exception.
C17_FramingErrorsFatal ==
    ( /\ call.op \in { "get_request", "poll_iter", "process" }
      /\ call.rcv.kind = "data"
      /\ FramingError(call.rcv.bytes) )
    => /\ ret.kind # "raise"
       /\ ret.request = <<>>
       /\ frames = <<>>
       /\ client_sock = NoSock
       /\ socks[RecvSock] = "closed"

\* C18: when request construction fails with a protocol violation,
\* _accept_request sends exactly one exception response on the active client
\* connection, carrying the request's function code + 0x80 and the violation's
\* exception code, yields no request, keeps the connection open and leaves the
\* store untouched.
C18_ViolationAnswered ==
    (call.op = "process" /\ ConstructionFailed)
    => /\ Len(frames) = 1
       /\ frames[1].sock = RecvSock
       /\ PduOf(frames[1])
            = << UidAndPdu(call.rcv.bytes)[2] + ERROR_BIAS, call.exc >>
       /\ ret.kind = "false"
       /\ ret.request = <<>>
       /\ effects = <<>>
       /\ client_sock = RecvSock
       /\ socks[client_sock] = "connected"
       /\ register_dict = call.store_before

\* C18's case: a single-coil write whose data Request refused with
\* ILLEGAL_DATA_VALUE was answered by the listener on a connection that was
\* already active
C18_Witness ==
    /\ call.op = "process"
    /\ ConstructionFailed
    /\ call.acc # "conn"
    /\ UidAndPdu(call.rcv.bytes)[2] = WRITE_SINGLE_COIL
    /\ Len(frames) = 1
    /\ PduOf(frames[1]) = << WRITE_SINGLE_COIL + ERROR_BIAS, ILLEGAL_DATA_VALUE >>
    /\ socks[client_sock] = "connected"

\* A well-framed ADU: protocol id 0, a declared length that is the number of
\* bytes after the pre-header, a unit id and a function code at least
WellFramed(b) ==
    /\ Len(b) >= MBAP_HDR_LENGTH + 1
    /\ U16At(b, 3) = 0
    /\ U16At(b, 5) = Len(b) - (MBAP_HDR_LENGTH - 1)

\* C19: a well-framed request whose unit id is not in the list of allowed unit
\* ids given to get_request yields no request, no frame to the peer and no
\* exception, with the connection kept open and the store unchanged; when no
\* list is given (or the unit id is in it) the request is returned whatever
\* its unit id is.
C19_UnitFilter ==
    LET b == call.rcv.bytes IN
    ( /\ call.op \in { "get_request", "poll_iter" }
      /\ call.rcv.kind = "data"
      /\ WellFramed(b) )
    => /\ (call.ual # <<>> /\ b[MBAP_HDR_LENGTH] \notin call.ual[1])
          => /\ ret.request = <<>>
             /\ ret.kind # "raise"
             /\ frames = <<>>
             /\ client_sock = RecvSock
             /\ socks[client_sock] = "connected"
             /\ register_dict = call.store_before
       /\ ( /\ call.ual = <<>> \/ b[MBAP_HDR_LENGTH] \in call.ual[1]
            /\ RequestOutcome(UidAndPdu(b), call.exc) = "ok" )
          => /\ ret.kind = "request"
             /\ ret.request[1].unit_addr = b[MBAP_HDR_LENGTH]

\* C19's case: a request for a unit id outside the list was discarded on a
\* connection that stays open
C19_Witness ==
    /\ call.op = "get_request"
    /\ call.rcv.kind = "data"
    /\ WellFramed(call.rcv.bytes)
    /\ call.ual # <<>>
    /\ call.rcv.bytes[MBAP_HDR_LENGTH] \notin call.ual[1]
    /\ ret.kind = "none"
    /\ frames = <<>>
    /\ client_sock # NoSock
    /\ socks[client_sock] = "connected"

\* C20: every frame the slave sends in answer to a request (a normal response,
\* the dispatcher's exception response, or the listener's exception response
\* when request construction fails) carries the transaction id and the unit id
\* of that request, so that the master's _validate_resp_hdr for the request
\* does not refuse it as uncorrelated.
C20_ResponseCorrelated ==
    LET b == call.rcv.bytes IN
    ( /\ call.op = "process"
      /\ call.rcv.kind = "data"
      /\ Len(b) >= MBAP_HDR_LENGTH + 1 )
    => \A i \in 1..Len(frames) :
         /\ U16At(frames[i].adu, 1) = U16At(b, 1)
         /\ frames[i].adu[MBAP_HDR_LENGTH] = b[MBAP_HDR_LENGTH]
         /\ _validate_resp_hdr(frames[i].adu, U16At(b, 1), b[MBAP_HDR_LENGTH],
                               b[MBAP_HDR_LENGTH + 1], FALSE).msg
              \notin ProtocolMismatch

\* C21: a master call whose own response is delivered in time by a correct
\* slave returns that response's payload, also after an earlier call timed out
\* and its response arrived late; a late response is never returned as the
\* result of a later call.
C21_LateResponseHarmless ==
    m_call.op = "send_receive" =>
        /\ m_call.timely
           => /\ m_call.result.kind = "data"
              /\ m_call.result.data
                   = Slice(Echo(m_call.sent).bytes,
                           IF m_call.count THEN MBAP_HDR_LENGTH + 2
                           ELSE MBAP_HDR_LENGTH + 1,
                           Len(Echo(m_call.sent).bytes))
        /\ m_call.result.kind = "data"
           => U16At(m_call.response.bytes, 1) = m_call.trans_id

\* C22: the bound status is truthful: it is a boolean in every state, false
\* before the first bind, and whenever it is true the listener holds a socket
\* that was bound and put into listening state, also after a bind that failed
\* part-way; polling a listener that was never bound fails with the 'not
\* bound' error and returns no request.
C22_BoundStatusTruthful ==
    /\ get_bound_status \in BOOLEAN
    /\ sock = NoSock => ~get_bound_status
    /\ get_bound_status => (sock # NoSock /\ socks[sock] = "listening")
    /\ (call.op \in { "get_request", "process" } /\ call.sock_before = NoSock)
       => /\ ret.kind = "raise"
          /\ ret.exc = "Modbus TCP server not bound"
          /\ ret.request = <<>>

====
